---- MODULE Spec2Model ----
(***************************************************************************)
(* Flow-map dashboard (src/src/App - Copy1.tsx, second listing, lines      *)
(* 480-1077): the CSV parser, the value coercion it embeds, the flow       *)
(* selector (filteredData) and the host state of the App component.        *)
(*                                                                         *)
(* Text is a sequence of one-character strings.  A JavaScript number is a  *)
(* decimal m * 10^(-e) (kind "num") or one of the non-finite values; a     *)
(* cell of a parsed row is a number or a string, and a row is a function   *)
(* from header names to cells (a header with no entry is not in DOMAIN).   *)
(***************************************************************************)
EXTENDS Integers, Sequences, FiniteSets, TLC

\* ------------------------------------------------------------------------
\* JavaScript values
\* ------------------------------------------------------------------------
Num(m, e) == [t |-> "num", m |-> m, e |-> e, s |-> <<>>]
PosInf    == [t |-> "pinf", m |-> 0, e |-> 0, s |-> <<>>]
NegInf    == [t |-> "ninf", m |-> 0, e |-> 0, s |-> <<>>]
NaN       == [t |-> "nan", m |-> 0, e |-> 0, s |-> <<>>]
Str(s)    == [t |-> "str", m |-> 0, e |-> 0, s |-> s]

IsNumber(v) == v.t \in {"num", "pinf", "ninf", "nan"}
IsString(v) == v.t = "str"
IsNaN(v)    == v.t = "nan"
IsFinite(v) == v.t = "num"

RECURSIVE Pow10(_)
Pow10(n) == IF n = 0 THEN 1 ELSE 10 * Pow10(n - 1)

\* m * 10^(-e) with trailing fractional zeros removed, so that equal numbers
\* are equal values.
RECURSIVE Normalize(_, _)
Normalize(m, e) ==
    IF e > 0 /\ m % 10 = 0 THEN Normalize(m \div 10, e - 1) ELSE Num(m, e)

\* sign of a - b for two finite numbers
SignDiff(a, b) ==
    LET x == a.m * Pow10(b.e)
        y == b.m * Pow10(a.e)
    IN  IF x > y THEN 1 ELSE IF x < y THEN -1 ELSE 0

\* a > b of JavaScript on numbers (false as soon as one side is NaN)
NumGT(a, b) ==
    CASE IsNaN(a) \/ IsNaN(b)      -> FALSE
      [] a.t = "pinf"              -> b.t # "pinf"
      [] a.t = "ninf"              -> FALSE
      [] b.t = "pinf"              -> FALSE
      [] b.t = "ninf"              -> TRUE
      [] OTHER                     -> SignDiff(a, b) = 1

NumGE(a, b) == NumGT(a, b) \/ (~IsNaN(a) /\ a = b)

Zero == Num(0, 0)

\* ------------------------------------------------------------------------
\* Strings
\* ------------------------------------------------------------------------
WhiteSpace == {" ", "\t", "\n", "\r"}
Digits     == {"0", "1", "2", "3", "4", "5", "6", "7", "8", "9"}

DigitVal(c) ==
    CASE c = "0" -> 0 [] c = "1" -> 1 [] c = "2" -> 2 [] c = "3" -> 3
      [] c = "4" -> 4 [] c = "5" -> 5 [] c = "6" -> 6 [] c = "7" -> 7
      [] c = "8" -> 8 [] c = "9" -> 9

\* String.prototype.trim
Trim(s) ==
    LET kept == {i \in 1..Len(s) : s[i] \notin WhiteSpace}
    IN  IF kept = {} THEN <<>>
        ELSE SubSeq(s, CHOOSE i \in kept : \A j \in kept : i <= j,
                       CHOOSE i \in kept : \A j \in kept : i >= j)

\* String.prototype.toLowerCase on the letters the inputs use
LowerChar(c) ==
    CASE c = "A" -> "a" [] c = "B" -> "b" [] c = "C" -> "c" [] c = "D" -> "d"
      [] c = "M" -> "m" [] c = "T" -> "t" [] c = "X" -> "x"
      [] OTHER -> c

ToLowerCase(s) == [i \in 1..Len(s) |-> LowerChar(s[i])]

\* String.prototype.includes
Includes(s, q) ==
    \E i \in 0..(Len(s) - Len(q)) : SubSeq(s, i + 1, i + Len(q)) = q

\* the index of the first c in s at or after from, or 0
IndexOf(s, c, from) ==
    LET hits == {i \in from..Len(s) : s[i] = c}
    IN  IF hits = {} THEN 0 ELSE CHOOSE i \in hits : \A j \in hits : i <= j

\* value of a run of decimal digits
RECURSIVE DigitsVal(_)
DigitsVal(s) ==
    IF s = <<>> THEN 0
    ELSE 10 * DigitsVal(SubSeq(s, 1, Len(s) - 1)) + DigitVal(s[Len(s)])

AllDigits(s) == \A i \in 1..Len(s) : s[i] \in Digits

InfinityText == <<"I", "n", "f", "i", "n", "i", "t", "y">>

\* an unsigned StrDecimalLiteral: Infinity, digits[.digits], .digits
UnsignedToNumber(s) ==
    IF s = InfinityText THEN PosInf
    ELSE LET dot  == IndexOf(s, ".", 1)
             ip   == IF dot = 0 THEN s ELSE SubSeq(s, 1, dot - 1)
             fp   == IF dot = 0 THEN <<>> ELSE SubSeq(s, dot + 1, Len(s))
         IN  IF AllDigits(ip) /\ AllDigits(fp) /\ Len(ip) + Len(fp) > 0
             THEN Normalize(DigitsVal(ip \o fp), Len(fp))
             ELSE NaN

Negate(v) ==
    CASE v.t = "num"  -> Num(0 - v.m, v.e)
      [] v.t = "pinf" -> NegInf
      [] v.t = "ninf" -> PosInf
      [] OTHER        -> v

\* Number(string): surrounding white space is skipped, the empty string is
\* 0, anything that is not a numeric literal is NaN.  (Exponents and the
\* 0x/0o/0b prefixes are not modelled; no input of the model uses them.)
StrToNumber(s0) ==
    LET s == Trim(s0)
    IN  IF s = <<>> THEN Zero
        ELSE IF Head(s) = "-" THEN Negate(UnsignedToNumber(Tail(s)))
        ELSE IF Head(s) = "+" THEN UnsignedToNumber(Tail(s))
        ELSE UnsignedToNumber(s)

\* Number(v) for a cell, and for a missing one (undefined)
ToNumber(v) == IF IsString(v) THEN StrToNumber(v.s) ELSE v

\* ------------------------------------------------------------------------
\* parseCSV
\* ------------------------------------------------------------------------
\* the n-th smallest element of a set of positions
Nth(positions, n) ==
    CHOOSE k \in positions : Cardinality({x \in positions : x < k}) = n - 1

\* csvText.split(/\r?\n/): the pieces between line feeds, a carriage return
\* right before a line feed belonging to the separator
SplitLines(s) ==
    LET nl       == {k \in 1..Len(s) : s[k] = "\n"}
        first(j) == IF j = 1 THEN 1 ELSE Nth(nl, j - 1) + 1
        last(j)  == IF j > Cardinality(nl) THEN Len(s)
                    ELSE LET k == Nth(nl, j)
                         IN  IF k > first(j) /\ s[k - 1] = "\r" THEN k - 2 ELSE k - 1
    IN  [j \in 1..(Cardinality(nl) + 1) |-> SubSeq(s, first(j), last(j))]

\* line.split(',')
SplitComma(s) ==
    LET cm       == {k \in 1..Len(s) : s[k] = ","}
        first(j) == IF j = 1 THEN 1 ELSE Nth(cm, j - 1) + 1
        last(j)  == IF j > Cardinality(cm) THEN Len(s) ELSE Nth(cm, j) - 1
    IN  [j \in 1..(Cardinality(cm) + 1) |-> SubSeq(s, first(j), last(j))]

\* variant: only lines of length zero are discarded
Lines_KeepsWhiteSpaceLines(csvText) ==
    LET notEmpty(line) == line # <<>>
    IN  SelectSeq(SplitLines(csvText), notEmpty)

NonBlank(line) == Trim(line) # <<>>

Lines(csvText) == SelectSeq(SplitLines(csvText), NonBlank)

Headers(line) == LET hs == SplitComma(line) IN [i \in 1..Len(hs) |-> Trim(hs[i])]

\* variant: without the test val !== ''
Coerce_EmptyIsZero(currentVal) ==
    LET val == Trim(currentVal)
        n   == StrToNumber(val)
    IN  IF ~IsNaN(n) THEN n ELSE Str(val)

\* the three statements applied to a finished field
Coerce(currentVal) ==
    LET val == Trim(currentVal)
        n   == StrToNumber(val)
        v1  == IF ~IsNaN(n) /\ val # <<>> THEN n ELSE Str(val)
    IN  IF IsString(v1) /\ v1.s # <<>> /\ Head(v1.s) = "\"" /\ v1.s[Len(v1.s)] = "\""
        THEN Str(SubSeq(v1.s, 2, Len(v1.s) - 1))
        ELSE v1

Range(f) == {f[i] : i \in DOMAIN f}

\* row[key] = val
Put(row, key, val) == (key :> val) @@ row

EmptyRow == [k \in {} |-> Zero]

\* row[headers[colIndex]] = coerced value, when the column has a header
\* (colIndex counts from 0 as in the source)
StoreField(headers, st) ==
    IF st.colIndex < Len(headers)
    THEN Put(st.row, headers[st.colIndex + 1], Coerce(st.currentVal))
    ELSE st.row

\* variant: every comma ends the field
ScanChar_IgnoresQuotes(headers, st, char) ==
    IF char = "\""
    THEN [st EXCEPT !.inQuote = ~st.inQuote]
    ELSE IF char = ","
    THEN [st EXCEPT !.row = StoreField(headers, st),
                    !.colIndex = st.colIndex + 1,
                    !.currentVal = <<>>]
    ELSE [st EXCEPT !.currentVal = Append(st.currentVal, char)]

\* variant: the quote character is also accumulated into the field
ScanChar_KeepsQuotes(headers, st, char) ==
    IF char = "\""
    THEN [st EXCEPT !.inQuote = ~st.inQuote,
                    !.currentVal = Append(st.currentVal, char)]
    ELSE IF char = "," /\ ~st.inQuote
    THEN [st EXCEPT !.row = StoreField(headers, st),
                    !.colIndex = st.colIndex + 1,
                    !.currentVal = <<>>]
    ELSE [st EXCEPT !.currentVal = Append(st.currentVal, char)]

\* one iteration of the character loop
ScanChar(headers, st, char) ==
    IF char = "\""
    THEN [st EXCEPT !.inQuote = ~st.inQuote]
    ELSE IF char = "," /\ ~st.inQuote
    THEN [st EXCEPT !.row = StoreField(headers, st),
                    !.colIndex = st.colIndex + 1,
                    !.currentVal = <<>>]
    ELSE [st EXCEPT !.currentVal = Append(st.currentVal, char)]

ScanStart ==
    [row |-> EmptyRow, currentVal |-> <<>>, inQuote |-> FALSE, colIndex |-> 0]

\* the character loop over line[lo..hi], entered in state st.  The range is
\* cut in halves, the state after the first half being computed before the
\* second half is entered, only to keep the evaluation shallow.
RECURSIVE ScanRange(_, _, _, _, _)
ScanRange(headers, line, lo, hi, st) ==
    IF lo > hi THEN st
    ELSE IF lo = hi THEN ScanChar(headers, st, line[lo])
    ELSE LET mid == (lo + hi) \div 2
         IN  CHOOSE r \in {ScanRange(headers, line, mid + 1, hi, half) :
                              half \in {ScanRange(headers, line, lo, mid, st)}} : TRUE

\* the loop state after the last character of line
ScanLine(headers, line) == ScanRange(headers, line, 1, Len(line), ScanStart)

\* variant: the last field is stored as trimmed text, without the coercion
ParseLine_LastFieldUncoerced(headers, line) ==
    LET st == ScanLine(headers, line)
    IN  IF st.colIndex < Len(headers)
        THEN Put(st.row, headers[st.colIndex + 1], Str(Trim(st.currentVal)))
        ELSE st.row

\* variant: the headers past the last field get the empty string
ParseLine_FillsMissing(headers, line) ==
    LET row == StoreField(headers, ScanLine(headers, line))
    IN  [h \in Range(headers) |-> IF h \in DOMAIN row THEN row[h] ELSE Str(<<>>)]

\* the body of the loop over the data lines: the scan, then the last field
ParseLine(headers, line) ==
    StoreField(headers, ScanLine(headers, line))

parseCSV(csvText) ==
    LET lines == Lines(csvText)
    IN  IF Len(lines) = 0 THEN <<>>
        ELSE LET headers == Headers(lines[1])
             IN  [i \in 1..(Len(lines) - 1) |-> ParseLine(headers, lines[i + 1])]

\* ------------------------------------------------------------------------
\* The selector: filteredData (useMemo over data and the four filters)
\* ------------------------------------------------------------------------
K_year             == <<"y", "e", "a", "r">>
K_origin_name      == <<"o", "r", "i", "g", "i", "n", "_", "n", "a", "m", "e">>
K_destination_name == <<"d", "e", "s", "t", "i", "n", "a", "t", "i", "o", "n",
                        "_", "n", "a", "m", "e">>
K_lat_o            == <<"l", "a", "t", "_", "o">>
K_lon_o            == <<"l", "o", "n", "_", "o">>
K_lat_d            == <<"l", "a", "t", "_", "d">>
K_lon_d            == <<"l", "o", "n", "_", "d">>
K_total_wt_l_all   == <<"t", "o", "t", "a", "l", "_", "w", "t", "_", "l", "_",
                        "a", "l", "l">>
K_total_wt_b_all   == <<"t", "o", "t", "a", "l", "_", "w", "t", "_", "b", "_",
                        "a", "l", "l">>
K_total_wt_t_all   == <<"t", "o", "t", "a", "l", "_", "w", "t", "_", "t", "_",
                        "a", "l", "l">>

Has(row, key) == key \in DOMAIN row

\* truthiness of row[key]: undefined, '', 0 and NaN are falsy
Truthy(row, key) ==
    /\ Has(row, key)
    /\ LET v == row[key]
       IN  CASE v.t = "str" -> v.s # <<>>
             [] v.t = "num" -> v.m # 0
             [] v.t = "nan" -> FALSE
             [] OTHER       -> TRUE

DigitChar(d) ==
    CASE d = 0 -> "0" [] d = 1 -> "1" [] d = 2 -> "2" [] d = 3 -> "3"
      [] d = 4 -> "4" [] d = 5 -> "5" [] d = 6 -> "6" [] d = 7 -> "7"
      [] d = 8 -> "8" [] d = 9 -> "9"

\* the decimal digits of n >= 0, at least width of them
RECURSIVE NatToDigits(_, _)
NatToDigits(n, width) ==
    IF n < 10 /\ width <= 1 THEN <<DigitChar(n)>>
    ELSE Append(NatToDigits(n \div 10, width - 1), DigitChar(n % 10))

\* String(v) of a number
NumToString(v) ==
    CASE v.t = "pinf" -> InfinityText
      [] v.t = "ninf" -> <<"-">> \o InfinityText
      [] v.t = "nan"  -> <<"N", "a", "N">>
      [] OTHER ->
           LET a    == IF v.m < 0 THEN 0 - v.m ELSE v.m
               sign == IF v.m < 0 THEN <<"-">> ELSE <<>>
               ip   == NatToDigits(a \div Pow10(v.e), 1)
               fp   == IF v.e = 0 THEN <<>>
                       ELSE <<".">> \o NatToDigits(a % Pow10(v.e), v.e)
           IN  sign \o ip \o fp

\* String(row[key]) of a present cell
CellToString(v) == IF IsString(v) THEN v.s ELSE NumToString(v)

\* parseInt(selectedYear) for the options of the year select
ParseIntYear(y) ==
    CASE y = "2020" -> Num(2020, 0)
      [] y = "2021" -> Num(2021, 0)
      [] y = "2022" -> Num(2022, 0)

\* one name filter: the row is rejected only when the query is non-empty,
\* the cell is truthy and its lower-cased text does not contain the query
NameFilterRejects(row, key, query) ==
    /\ query # <<>>
    /\ Truthy(row, key)
    /\ ~Includes(ToLowerCase(CellToString(row[key])), ToLowerCase(query))

\* the callback of the first .filter
PassesFilters(row, year, origin, dest) ==
    /\ ~(year # "All" /\ (~Has(row, K_year) \/ row[K_year] # ParseIntYear(year)))
    /\ ~NameFilterRejects(row, K_origin_name, origin)
    /\ ~NameFilterRejects(row, K_destination_name, dest)

\* variant: the leisure and business columns exchanged
MagnitudeKey_Swapped(type) ==
    CASE type = "leisure"  -> K_total_wt_b_all
      [] type = "business" -> K_total_wt_l_all
      [] OTHER             -> K_total_wt_t_all

MagnitudeKey(type) ==
    CASE type = "leisure"  -> K_total_wt_l_all
      [] type = "business" -> K_total_wt_b_all
      [] OTHER             -> K_total_wt_t_all

\* Number(x) || 0 with x = row[key] (undefined when the row has no entry)
NumberOrZero(row, key) ==
    LET n == IF Has(row, key) THEN ToNumber(row[key]) ELSE NaN
    IN  IF IsNaN(n) \/ n = Zero THEN Zero ELSE n

\* the callback of .map: { ...row, displayValue, displayType }
FlowRow(row, type) ==
    [row |-> row, displayValue |-> NumberOrZero(row, MagnitudeKey(type)),
     displayType |-> type]

\* the sign of b - a for two displayValues (a NaN difference counts as 0 in
\* a sort: Infinity - Infinity)
SignOfDifference(b, a) ==
    CASE a.t = "pinf" /\ b.t = "pinf" -> 0
      [] a.t = "pinf"                 -> -1
      [] b.t = "pinf"                 -> 1
      [] OTHER                        -> SignDiff(b, a)

\* variant: the comparator a.displayValue - b.displayValue
SortCompare_Ascending(a, b) == SignOfDifference(a.displayValue, b.displayValue)

\* the comparator (a, b) => b.displayValue - a.displayValue
SortCompare(a, b) == SignOfDifference(b.displayValue, a.displayValue)

\* variant: an element goes before the elements it compares equal to
RECURSIVE InsertSorted_BeforeEqual(_, _)
InsertSorted_BeforeEqual(sorted, x) ==
    IF sorted = <<>> THEN <<x>>
    ELSE IF SortCompare(Head(sorted).rec, x.rec) >= 0
         THEN <<x>> \o sorted
         ELSE <<Head(sorted)>> \o InsertSorted_BeforeEqual(Tail(sorted), x)

\* Array.prototype.sort is stable: an element goes after every element that
\* does not compare greater than it.
RECURSIVE InsertSorted(_, _)
InsertSorted(sorted, x) ==
    IF sorted = <<>> THEN <<x>>
    ELSE IF SortCompare(Head(sorted).rec, x.rec) > 0
         THEN <<x>> \o sorted
         ELSE <<Head(sorted)>> \o InsertSorted(Tail(sorted), x)

RECURSIVE StableSort(_)
StableSort(s) ==
    IF s = <<>> THEN <<>>
    ELSE InsertSorted(StableSort(SubSeq(s, 1, Len(s) - 1)), s[Len(s)])

\* the chain .filter .map .filter .sort over rows_; each record rec travels
\* with src, the position in rows_ of the row it was derived from
RankedEntries(rows_, year, type, origin, dest) ==
    LET all      == [i \in 1..Len(rows_) |-> [src |-> i, row |-> rows_[i]]]
        pass(x)  == PassesFilters(x.row, year, origin, dest)
        kept     == SelectSeq(all, pass)
        mapped   == [k \in 1..Len(kept) |->
                       [src |-> kept[k].src, rec |-> FlowRow(kept[k].row, type)]]
        pos(x)   == NumGT(x.rec.displayValue, Zero)
    IN  StableSort(SelectSeq(mapped, pos))

\* the positions in rows_ of the records of filteredData, in output order
FilteredIndices(rows_, year, type, origin, dest) ==
    LET r == RankedEntries(rows_, year, type, origin, dest)
    IN  [k \in 1..Len(r) |-> r[k].src]

\* filteredData
FilteredData(rows_, year, type, origin, dest) ==
    LET r == RankedEntries(rows_, year, type, origin, dest)
    IN  [k \in 1..Len(r) |-> r[k].rec]

\* ------------------------------------------------------------------------
\* Coordinate repair: toNum, fixLon and mapData (useMemo over filteredData
\* and topN)
\* ------------------------------------------------------------------------
\* String(v ?? '') for row[key]: a missing cell gives the empty string
StringOrEmpty(row, key) == IF Has(row, key) THEN CellToString(row[key]) ELSE <<>>

\* s.replaceAll('"', '')
RemoveQuotes(s) == SelectSeq(s, LAMBDA c : c # "\"")

\* Number.isFinite(x) ? x : NaN
FiniteOrNaN(x) == IF IsFinite(x) THEN x ELSE NaN

\* toNum(row[key]): Number of the trimmed text without quotes, NaN unless
\* that number is finite
toNum(row, key) ==
    FiniteOrNaN(StrToNumber(RemoveQuotes(Trim(StringOrEmpty(row, key)))))

\* variant: no repair
fixLon_Unchanged(lon) == lon

\* variant: every longitude is negated
fixLon_AlwaysNegates(lon) == Negate(lon)

\* fixLon: lon > 0 ? -lon : lon
fixLon(lon) == IF NumGT(lon, Zero) THEN Negate(lon) ELSE lon

\* what the callback of mapData's .map returns for a record without usable
\* coordinates
Null == [null |-> TRUE]

IsNull(x) == "null" \in DOMAIN x

\* variant: the origin pair is emitted as soon as the origin is finite
WithCoords_OriginOnly(rec, lonO, latO, lonD, latD) ==
    IF IsFinite(lonO) /\ IsFinite(latO)
    THEN [row |-> rec.row, displayValue |-> rec.displayValue,
          displayType |-> rec.displayType,
          oCoords |-> <<latO, lonO>>, dCoords |-> <<latD, lonD>>]
    ELSE Null

\* the test and the return of the callback of mapData's .map:
\* { ...row, oCoords, dCoords } when the four numbers are finite, else null
WithCoords(rec, lonO, latO, lonD, latD) ==
    IF IsFinite(lonO) /\ IsFinite(latO) /\ IsFinite(lonD) /\ IsFinite(latD)
    THEN [row |-> rec.row, displayValue |-> rec.displayValue,
          displayType |-> rec.displayType,
          oCoords |-> <<latO, lonO>>, dCoords |-> <<latD, lonD>>]
    ELSE Null

\* the callback of mapData's .map
MapRow(rec) ==
    WithCoords(rec, fixLon(toNum(rec.row, K_lon_o)), toNum(rec.row, K_lat_o),
               fixLon(toNum(rec.row, K_lon_d)), toNum(rec.row, K_lat_d))

\* filteredData.slice(0, n)
Slice(s, n) == SubSeq(s, 1, IF n < Len(s) THEN n ELSE Len(s))

\* .map(row => ...) over entries that keep src, the position in rows_ of the
\* row each record was derived from
MapEach(es) == [k \in 1..Len(es) |-> [src |-> es[k].src, rec |-> MapRow(es[k].rec)]]

\* .filter(Boolean)
DropNull(es) == SelectSeq(es, LAMBDA x : ~IsNull(x.rec))

\* variant: the records without coordinates are dropped before the cut
MapEntries_CutsAfterFilter(ranked, n) == Slice(DropNull(MapEach(ranked)), n)

\* the chain .slice .map .filter(Boolean) over the ranked entries
MapEntries(ranked, n) == DropNull(MapEach(Slice(ranked, n)))

\* the records, and the source positions, of a sequence of entries
RecsOf(es) == [k \in 1..Len(es) |-> es[k].rec]

SrcsOf(es) == [k \in 1..Len(es) |-> es[k].src]

\* mapData
MapData(rows_, year, type, origin, dest, n) ==
    RecsOf(MapEntries(RankedEntries(rows_, year, type, origin, dest), n))

\* the positions in rows_ of the records of mapData, in output order
MapIndices(rows_, year, type, origin, dest, n) ==
    SrcsOf(MapEntries(RankedEntries(rows_, year, type, origin, dest), n))

\* x || 0 for a number
NonZeroOrZero(x) == IF IsNaN(x) \/ x = Zero THEN Zero ELSE x

\* a + b for two numbers that are finite or Infinity
NumAdd(a, b) ==
    IF a = PosInf \/ b = PosInf THEN PosInf
    ELSE LET e == IF a.e > b.e THEN a.e ELSE b.e
         IN  Normalize(a.m * Pow10(e - a.e) + b.m * Pow10(e - b.e), e)

\* the sum of c.displayValue || 0 over ranked[lo..hi]; the additions are
\* exact, so that their grouping does not matter
RECURSIVE SumRange(_, _, _)
SumRange(ranked, lo, hi) ==
    IF lo > hi THEN Zero
    ELSE IF lo = hi THEN NonZeroOrZero(ranked[lo].displayValue)
    ELSE LET mid == (lo + hi) \div 2
         IN  NumAdd(SumRange(ranked, lo, mid), SumRange(ranked, mid + 1, hi))

\* totalStats: filteredData.reduce((acc, c) => acc + (c.displayValue || 0), 0)
TotalStats(ranked) == SumRange(ranked, 1, Len(ranked))

\* the rows of the data table and the bars of the chart
TableRows(ranked) == Slice(ranked, 100)
ChartRows(ranked) == Slice(ranked, 15)

\* ------------------------------------------------------------------------
\* The same two chains over a heap, to follow which arrays and objects
\* they write.  A heap is a sequence of cells and an address is an index
\* into it; an array cell holds the addresses of its elements in items and
\* an object cell holds its value in val.
\* ------------------------------------------------------------------------
HObj(v)     == [items |-> <<>>, val |-> v]
HArr(items) == [items |-> items, val |-> Zero]

\* the heap that holds the array data and its row objects, data last
HeapOf(rows_) ==
    [i \in 1..Len(rows_) |-> HObj(rows_[i])] \o <<HArr([i \in 1..Len(rows_) |-> i])>>

\* arr.filter(pred): a new array of the same objects
HFilter(h, arr, pred(_)) ==
    [heap |-> Append(h, HArr(SelectSeq(h[arr].items, LAMBDA a : pred(h[a].val)))),
     ref  |-> Len(h) + 1]

\* arr.map(f) with a callback that returns a new object ({ ...row, ... }):
\* new objects and a new array of them
HMap(h, arr, f(_)) ==
    LET src == h[arr].items
        n   == Len(src)
    IN  [heap |-> (h \o [i \in 1..n |-> HObj(f(h[src[i]].val))])
                    \o <<HArr([i \in 1..n |-> Len(h) + i])>>,
         ref  |-> Len(h) + n + 1]

\* arr.sort(compare): the array itself is reordered and returned
HSort(h, arr) ==
    LET items   == h[arr].items
        entries == [k \in 1..Len(items) |-> [src |-> items[k], rec |-> h[items[k]].val]]
        sorted  == StableSort(entries)
    IN  [heap |-> [h EXCEPT ![arr] = HArr([k \in 1..Len(sorted) |-> sorted[k].src])],
         ref  |-> arr]

\* arr.slice(0, n): a new array
HSlice(h, arr, n) ==
    [heap |-> Append(h, HArr(Slice(h[arr].items, n))), ref |-> Len(h) + 1]

\* variant: data.sort(...) by the chosen magnitude, then the two filters
\* and the map
HeapFilteredData_SortsData(h, dataRef, year, type, origin, dest) ==
    LET items   == h[dataRef].items
        entries == [k \in 1..Len(items) |->
                       [src |-> items[k], rec |-> FlowRow(h[items[k]].val, type)]]
        sorted  == StableSort(entries)
        h1      == [h EXCEPT ![dataRef] = HArr([k \in 1..Len(sorted) |-> sorted[k].src])]
        s1 == HFilter(h1, dataRef, LAMBDA row : PassesFilters(row, year, origin, dest))
        s2 == HMap(s1.heap, s1.ref, LAMBDA row : FlowRow(row, type))
    IN  HFilter(s2.heap, s2.ref, LAMBDA rec : NumGT(rec.displayValue, Zero))

\* filteredData over the heap
HeapFilteredData(h, dataRef, year, type, origin, dest) ==
    LET s1 == HFilter(h, dataRef, LAMBDA row : PassesFilters(row, year, origin, dest))
        s2 == HMap(s1.heap, s1.ref, LAMBDA row : FlowRow(row, type))
        s3 == HFilter(s2.heap, s2.ref, LAMBDA rec : NumGT(rec.displayValue, Zero))
    IN  HSort(s3.heap, s3.ref)

\* mapData over the heap
HeapMapData(h, filteredRef, n) ==
    LET s1 == HSlice(h, filteredRef, n)
        s2 == HMap(s1.heap, s1.ref, LAMBDA rec : MapRow(rec))
    IN  HFilter(s2.heap, s2.ref, LAMBDA x : ~IsNull(x))

\* the values of the elements of an array
Elements(h, arr) == [k \in 1..Len(h[arr].items) |-> h[h[arr].items[k]].val]

\* ------------------------------------------------------------------------
\* Stroke weights: USAMapVisualization({ flows })
\*
\* Logarithms are integers counting units of 1e-7, normalised positions and
\* powers count units of 1e-6, and so do stroke weights.  Math.log1p is
\* given by its values (rounded to the unit) at the magnitudes the input
\* files hold; finite magnitudes stay below 1e9.  Infinity, -Infinity and
\* NaN are integers no finite quantity reaches.
\* ------------------------------------------------------------------------
LogOne     == 10000000     \* 1 as a logarithm
LogEpsilon == 10           \* 1e-6 as a logarithm
Million    == 1000000      \* 1 as a normalised position
LogInf     == 2000000000   \* Infinity as a logarithm or a difference of two
LogNaN     == 2000000001   \* NaN as a difference of two logarithms
NotANumber == -1           \* NaN as a normalised position, a power, a weight

\* Math.log1p
Log1p(v) ==
    CASE v = Num(0, 0)       -> 0
      [] v = Num(1, 0)       -> 6931472
      [] v = Num(2, 0)       -> 10986123
      [] v = Num(3, 0)       -> 13862944
      [] v = Num(4, 0)       -> 16094379
      [] v = Num(5, 0)       -> 17917595
      [] v = Num(10, 0)      -> 23978953
      [] v = Num(50, 0)      -> 39318256
      [] v = Num(100, 0)     -> 46151205
      [] v = Num(150, 0)     -> 50172798
      [] v = Num(1000, 0)    -> 69087548
      [] v = Num(3000000, 0) -> 149141232
      [] v = Num(3000001, 0) -> 149141235
      [] v = PosInf          -> LogInf

\* Math.max(0, Number(x) || 0)
NonNegative(x) ==
    LET n == IF IsNaN(x) \/ x = Zero THEN Zero ELSE x
    IN  IF NumGT(Zero, n) THEN Zero ELSE n

SetMin(S) == CHOOSE x \in S : \A y \in S : x <= y
SetMax(S) == CHOOSE x \in S : \A y \in S : x >= y

\* a + b and a - b for two logarithms
ExtAdd(a, b) == IF a = LogInf \/ b = LogInf THEN LogInf ELSE a + b

ExtSub(a, b) ==
    CASE a = LogInf /\ b = LogInf -> LogNaN
      [] a = LogInf               -> LogInf
      [] b = LogInf               -> 0 - LogInf
      [] OTHER                    -> a - b

\* variant: maxLog is always maxL + 1e-6
MinMaxLog_AlwaysPadded(flows) ==
    IF Len(flows) = 0 THEN [minLog |-> 0, maxLog |-> LogOne]
    ELSE LET logs == {Log1p(NonNegative(flows[j].displayValue)) : j \in 1..Len(flows)}
         IN  [minLog |-> SetMin(logs), maxLog |-> ExtAdd(SetMax(logs), LogEpsilon)]

\* the callback of the useMemo that gives { minLog, maxLog }
MinMaxLog(flows) ==
    IF Len(flows) = 0 THEN [minLog |-> 0, maxLog |-> LogOne]
    ELSE LET logs == {Log1p(NonNegative(flows[j].displayValue)) : j \in 1..Len(flows)}
             minL == SetMin(logs)
             maxL == SetMax(logs)
             pad  == ExtAdd(minL, LogEpsilon)
         IN  [minLog |-> minL, maxLog |-> IF maxL >= pad THEN maxL ELSE pad]

MinW == 800000      \* 0.8
MaxW == 14000000    \* 14.0

\* the first n decimal digits of r / d for 0 <= r < d
RECURSIVE Fraction(_, _, _)
Fraction(r, d, n) ==
    IF n = 0 THEN 0
    ELSE ((r * 10) \div d) * Pow10(n - 1) + Fraction((r * 10) % d, d, n - 1)

\* Math.min(1, Math.max(0, num / den)) for den >= 0; a NaN quotient stays
\* NaN through Math.max and Math.min
ClampedRatio(num, den) ==
    CASE num = LogNaN \/ den = LogNaN                        -> NotANumber
      [] num \in {LogInf, 0 - LogInf} /\ den = LogInf        -> NotANumber
      [] num = 0 /\ den = 0                                  -> NotANumber
      [] den = LogInf                                        -> 0
      [] num <= 0                                            -> 0
      [] num >= den                                          -> Million
      [] OTHER                                               -> Fraction(num, den, 6)

\* Math.pow(t, 1.15) on [0, 1]: exact at 0 and at 1, and between two
\* tenths the chord through the values at those tenths
PowKnots ==
    <<0, 70795, 157103, 250432, 348633, 450625, 555743, 663533, 773666, 885888,
      1000000>>

Pow115(t) ==
    IF t = NotANumber THEN NotANumber
    ELSE IF t >= Million THEN Million
    ELSE LET k    == t \div 100000
             lo   == PowKnots[k + 1]
             hi   == PowKnots[k + 2]
         IN  lo + ((hi - lo) * ((t % 100000) \div 100)) \div 1000

\* strokeFor, with the minLog and maxLog of the current useMemo value
strokeFor(vRaw, range) ==
    LET v    == IF NumGT(Zero, vRaw) THEN Zero ELSE vRaw
        logv == Log1p(v)
        t    == ClampedRatio(ExtSub(logv, range.minLog),
                             ExtSub(range.maxLog, range.minLog))
        t2   == Pow115(t)
    IN  IF t2 = NotANumber THEN NotANumber
        ELSE MinW + ((t2 \div 100) * ((MaxW - MinW) \div 100)) \div 100

\* the weight of the line drawn for each record of flows
Weights(flows, range) ==
    [j \in 1..Len(flows) |-> strokeFor(NonNegative(flows[j].displayValue), range)]

\* ------------------------------------------------------------------------
\* State
\* ------------------------------------------------------------------------
VARIABLES
    csvText,        \* the argument of a parseCSV call under study
    rows,           \* what that call returned
    pcParse,        \* "input" before the call, "done" after it, "off" when unused
    data,           \* App state: the parsed rows
    loading,
    error,
    parsedCount,
    fileStatus,
    selectedYear,
    selectedType,
    searchOrigin,
    searchDest,
    topN,
    pcFetch,        \* the mount effect: "mount", "awaiting", "done"
    pcUpload,       \* handleFileUpload: "idle", "reading"
    logRange        \* the value { minLog, maxLog } held by the useMemo of the map

parseVars == <<csvText, rows, pcParse>>
loadVars  == <<data, loading, error, parsedCount, fileStatus, pcFetch, pcUpload>>
filterVars == <<selectedYear, selectedType, searchOrigin, searchDest, topN>>
memoVars == <<logRange>>
vars == <<csvText, rows, pcParse, data, loading, error, parsedCount, fileStatus,
          selectedYear, selectedType, searchOrigin, searchDest, topN,
          pcFetch, pcUpload, logRange>>

\* ------------------------------------------------------------------------
\* Inputs
\* ------------------------------------------------------------------------
MaxLen  == 4
MaxRows == 2

Alphabet == {",", "\"", " ", "\n", "\r", "0", "7", "a"}

TextsUpTo(n) == UNION {[1..k -> Alphabet] : k \in 0..n}

HeaderLines == { <<"n", ",", "v">>, <<"a", ",", "a">>, <<" ", "x", " ">> }

\* the examples of the documentation
Text_QuotedComma ==
    <<"n", "a", "m", "e", ",", "v", "a", "l", "u", "e", "\n",
      "\"", "A", ",", " ", "B", "\"", ",", "5">>
Text_Quoted007 == <<"i", "d", "\n", "\"", "0", "0", "7", "\"">>
Text_Quoted42  ==
    <<"a", ",", "b", "\r", "\n", "\"", "4", "2", "\"", ",", "\"", "4", "2", "\"">>
Text_OnlyCommas == <<"a", ",", "b", ",", "c", "\n", ",", ",">>

\* a column of the numeric literals Infinity and -Infinity
Text_Infinity ==
    <<"v", "\n">> \o InfinityText \o <<"\n", "-">> \o InfinityText

ExampleTexts ==
    {Text_QuotedComma, Text_Quoted007, Text_Quoted42, Text_OnlyCommas, Text_Infinity}

TextInputs ==
    TextsUpTo(MaxLen)
      \cup {h \o <<"\n">> \o b : h \in HeaderLines, b \in TextsUpTo(MaxLen)}
      \cup ExampleTexts

\* CSV files of flows: the ten-column header and up to MaxRows data lines,
\* each made of seven leading fields and of magnitude fields
RECURSIVE Join(_, _)
Join(parts, sep) ==
    IF parts = <<>> THEN <<>>
    ELSE IF Len(parts) = 1 THEN parts[1]
    ELSE parts[1] \o sep \o Join(Tail(parts), sep)

FlowHeader ==
    Join(<<K_year, K_origin_name, K_destination_name, K_lat_o, K_lon_o,
           K_lat_d, K_lon_d, K_total_wt_l_all, K_total_wt_b_all,
           K_total_wt_t_all>>, <<",">>)

\* year, names and coordinates: a quoted name with a comma and unsigned
\* longitudes; an empty lon_o; empty names and a latitude of 100
RouteFields == {
    \* 2020,"Ab, X",Cd,42.36,71.06,30.27,97.74
    <<"2", "0", "2", "0", ",", "\"", "A", "b", ",", " ", "X", "\"", ",", "C", "d",
      ",", "4", "2", ".", "3", "6", ",", "7", "1", ".", "0", "6", ",",
      "3", "0", ".", "2", "7", ",", "9", "7", ".", "7", "4">>,
    \* 2021,b,c,40,,41,-80
    <<"2", "0", "2", "1", ",", "b", ",", "c", ",", "4", "0", ",", ",", "4", "1",
      ",", "-", "8", "0">>,
    \* 2020,,,100,-75,41,-80
    <<"2", "0", "2", "0", ",", ",", ",", "1", "0", "0", ",", "-", "7", "5", ",",
      "4", "1", ",", "-", "8", "0">> }

\* the magnitude fields of a line (leisure, business, total): two lines with
\* equal totals and opposite leisure order; a negative, a zero and an
\* unparseable magnitude; a line that ends before its total
MagnitudeFields == {
    <<",", "1", ",", "2", ",", "3">>,
    <<",", "2", ",", "-", "1", ",", "3">>,
    <<",", "0", ",", "x">> }

DataLines == {r \o m : r \in RouteFields, m \in MagnitudeFields}

FlowTexts ==
    {Join(<<FlowHeader>> \o ls, <<"\n">>) :
        ls \in UNION {[1..k -> DataLines] : k \in 0..MaxRows}}

\* the data lines of further files: the documented end-to-end example, a
\* garbled latitude, a longitude of Infinity, a longitude of 0 next to a
\* negative latitude
\* 2021,"Boston, MA","Austin, TX",42.36,71.06,30.27,97.74,100,50,150
Line_Boston ==
    <<"2", "0", "2", "1", ",", "\"", "B", "o", "s", "t", "o", "n", ",",
      " ", "M", "A", "\"", ",", "\"", "A", "u", "s", "t", "i", "n", ",",
      " ", "T", "X", "\"", ",", "4", "2", ".", "3", "6", ",", "7", "1",
      ".", "0", "6", ",", "3", "0", ".", "2", "7", ",", "9", "7", ".", "7",
      "4", ",", "1", "0", "0", ",", "5", "0", ",", "1", "5", "0">>

\* 2020,a,b,40,-75,x,-80,1,2,5
Line_GarbledLat ==
    <<"2", "0", "2", "0", ",", "a", ",", "b", ",", "4", "0", ",", "-", "7",
      "5", ",", "x", ",", "-", "8", "0", ",", "1", ",", "2", ",", "5">>

\* 2020,a,b,40,Infinity,41,-80,1,2,4
Line_InfiniteLon ==
    <<"2", "0", "2", "0", ",", "a", ",", "b", ",", "4", "0", ",", "I", "n",
      "f", "i", "n", "i", "t", "y", ",", "4", "1", ",", "-", "8", "0", ",",
      "1", ",", "2", ",", "4">>

\* 2020,a,b,40,75,-41,0,1,2,3
Line_ZeroLon ==
    <<"2", "0", "2", "0", ",", "a", ",", "b", ",", "4", "0", ",", "7", "5",
      ",", "-", "4", "1", ",", "0", ",", "1", ",", "2", ",", "3">>

\* lines that differ in their total only: 10, 100 and 1000, and two totals
\* whose logarithms are less than 1e-6 apart
\* 2020,a,b,40,-75,41,-80,1,2,10
Line_Ten ==
    <<"2", "0", "2", "0", ",", "a", ",", "b", ",", "4", "0", ",", "-", "7",
      "5", ",", "4", "1", ",", "-", "8", "0", ",", "1", ",", "2", ",", "1",
      "0">>

\* 2020,a,b,40,-75,41,-80,1,2,100
Line_Hundred ==
    <<"2", "0", "2", "0", ",", "a", ",", "b", ",", "4", "0", ",", "-", "7",
      "5", ",", "4", "1", ",", "-", "8", "0", ",", "1", ",", "2", ",", "1",
      "0", "0">>

\* 2020,a,b,40,-75,41,-80,1,2,1000
Line_Thousand ==
    <<"2", "0", "2", "0", ",", "a", ",", "b", ",", "4", "0", ",", "-", "7",
      "5", ",", "4", "1", ",", "-", "8", "0", ",", "1", ",", "2", ",", "1",
      "0", "0", "0">>

\* 2020,a,b,40,-75,41,-80,1,2,3000000
Line_ThreeMillion ==
    <<"2", "0", "2", "0", ",", "a", ",", "b", ",", "4", "0", ",", "-", "7",
      "5", ",", "4", "1", ",", "-", "8", "0", ",", "1", ",", "2", ",", "3",
      "0", "0", "0", "0", "0", "0">>

\* 2020,a,b,40,-75,41,-80,1,2,3000001
Line_ThreeMillionOne ==
    <<"2", "0", "2", "0", ",", "a", ",", "b", ",", "4", "0", ",", "-", "7",
      "5", ",", "4", "1", ",", "-", "8", "0", ",", "1", ",", "2", ",", "3",
      "0", "0", "0", "0", "0", "1">>

\* a total of Infinity
\* 2020,a,b,40,-75,41,-80,1,2,Infinity
Line_InfiniteTotal ==
    <<"2", "0", "2", "0", ",", "a", ",", "b", ",", "4", "0", ",", "-", "7",
      "5", ",", "4", "1", ",", "-", "8", "0", ",", "1", ",", "2", ",", "I",
      "n", "f", "i", "n", "i", "t", "y">>

\* the lines of a file with more rows than the smallest topN
\* 2020,a,b,40,-75,41,-80,1,2,3
Line_Three ==
    <<"2", "0", "2", "0", ",", "a", ",", "b", ",", "4", "0", ",", "-", "7",
      "5", ",", "4", "1", ",", "-", "8", "0", ",", "1", ",", "2", ",", "3">>

\* 2020,a,b,40,-75,x,-80,1,2,3
Line_ThreeGarbled ==
    <<"2", "0", "2", "0", ",", "a", ",", "b", ",", "4", "0", ",", "-", "7",
      "5", ",", "x", ",", "-", "8", "0", ",", "1", ",", "2", ",", "3">>

\* 2020,a,b,40,-75,41,-80,1,2,2
Line_Two ==
    <<"2", "0", "2", "0", ",", "a", ",", "b", ",", "4", "0", ",", "-", "7",
      "5", ",", "4", "1", ",", "-", "8", "0", ",", "1", ",", "2", ",", "2">>

\* 2020,a,b,40,-75,41,-80,1,2,1
Line_One ==
    <<"2", "0", "2", "0", ",", "a", ",", "b", ",", "4", "0", ",", "-", "7",
      "5", ",", "4", "1", ",", "-", "8", "0", ",", "1", ",", "2", ",", "1">>

FlowFile(ls) == Join(<<FlowHeader>> \o ls, <<"\n">>)

Text_Boston  == FlowFile(<<Line_Boston>>)
Text_Garbled == FlowFile(<<Line_GarbledLat, Line_InfiniteLon, Line_ZeroLon>>)

Text_Weights == FlowFile(<<Line_Hundred, Line_Ten, Line_Thousand>>)
Text_Close   == FlowFile(<<Line_ThreeMillion, Line_ThreeMillionOne>>)

\* 52 data lines: the total 1, the total 3 fifty times (the second of them
\* with a garbled latitude), the total 2
LargeRows == 52

Text_Large ==
    FlowFile([i \in 1..LargeRows |->
                 CASE i = 1         -> Line_One
                   [] i = 3         -> Line_ThreeGarbled
                   [] i = LargeRows -> Line_Two
                   [] OTHER         -> Line_Three])

Text_InfiniteTotal == FlowFile(<<Line_Three, Line_InfiniteTotal>>)

ExampleFlowTexts ==
    {Text_Boston, Text_Garbled, Text_Weights, Text_Close, Text_InfiniteTotal,
     Text_Large}

HtmlText == <<"<", "h", "t", "m", "l", ">">>

ServerTexts == FlowTexts \cup ExampleFlowTexts \cup {<<>>, HtmlText}
UploadTexts == FlowTexts \cup ExampleFlowTexts \cup {<<>>}

YearOptions    == {"All", "2020", "2021", "2022"}
PurposeOptions == {"total", "leisure", "business"}
TopNOptions    == {50, 100, 200}
OriginQueries  == {<<>>, <<"a", "B">>}
DestQueries    == {<<>>, <<"c">>}

\* ------------------------------------------------------------------------
\* parseCSV as a one-step machine
\* ------------------------------------------------------------------------
AppInit ==
    /\ data = <<>>
    /\ loading = FALSE
    /\ error = "null"
    /\ parsedCount = 0
    /\ fileStatus = "not_found"
    /\ selectedYear = "All"
    /\ selectedType = "total"
    /\ searchOrigin = <<>>
    /\ searchDest = <<>>
    /\ topN = 50
    /\ pcFetch = "mount"
    /\ pcUpload = "idle"
    /\ logRange = MinMaxLog(<<>>)

InitParse ==
    /\ csvText \in TextInputs
    /\ rows = <<>>
    /\ pcParse = "input"
    /\ AppInit

CallParseCSV ==
    /\ pcParse = "input"
    /\ rows' = parseCSV(csvText)
    /\ pcParse' = "done"
    /\ UNCHANGED <<csvText, loadVars, filterVars, memoVars>>

NextParse == CallParseCSV

SpecParse == InitParse /\ [][NextParse]_vars

\* ------------------------------------------------------------------------
\* The App component
\* ------------------------------------------------------------------------
Init ==
    /\ csvText = <<>>
    /\ rows = <<>>
    /\ pcParse = "off"
    /\ AppInit

StartsWith(s, prefix) ==
    Len(s) >= Len(prefix) /\ SubSeq(s, 1, Len(prefix)) = prefix

IsHtml(text) ==
    \/ StartsWith(Trim(text), <<"<", "!", "D", "O", "C", "T", "Y", "P", "E">>)
    \/ StartsWith(Trim(text), <<"<", "h", "t", "m", "l">>)

\* what the two guards of fetchData and parseCSV make of each response text
ServerResponses ==
    {[html |-> IsHtml(text), parsed |-> parseCSV(text)] : text \in ServerTexts}

\* what parseCSV makes of each file a user may pick
UploadedFiles == {[parsed |-> parseCSV(text)] : text \in UploadTexts}

\* the derived values of a render
filteredIdx == FilteredIndices(data, selectedYear, selectedType, searchOrigin, searchDest)
filteredData == FilteredData(data, selectedYear, selectedType, searchOrigin, searchDest)
mapData == MapData(data, selectedYear, selectedType, searchOrigin, searchDest, topN)
mapIdx == MapIndices(data, selectedYear, selectedType, searchOrigin, searchDest, topN)

\* what the dependency arrays of the three useMemo calls hang on: data and
\* the four filters (filteredData), filteredData and topN (mapData), flows
\* (minLog and maxLog)
MemoDeps == <<data, selectedYear, selectedType, searchOrigin, searchDest, topN>>

\* variant: minLog and maxLog are taken over filteredData
Rerender_OverRanked(d, year, type, origin, dest, n) ==
    logRange' = IF <<d, year, type, origin, dest, n>> # MemoDeps
                THEN MinMaxLog(FilteredData(d, year, type, origin, dest))
                ELSE logRange

\* the render that follows a state update, given the new values of data,
\* of the filters and of topN: the useMemo of the map keeps its value unless
\* flows was recomputed.  (A setData with rows equal to the present ones
\* recomputes the same value.)
Rerender(d, year, type, origin, dest, n) ==
    logRange' = IF <<d, year, type, origin, dest, n>> # MemoDeps
                THEN MinMaxLog(MapData(d, year, type, origin, dest, n))
                ELSE logRange

\* fetchData up to its first await (the mount effect)
FetchStart ==
    /\ pcFetch = "mount"
    /\ pcFetch' = "awaiting"
    /\ loading' = TRUE
    /\ error' = "null"
    /\ fileStatus' = "not_found"
    /\ UNCHANGED <<data, parsedCount, pcUpload, parseVars, filterVars>>
    /\ Rerender(data, selectedYear, selectedType, searchOrigin, searchDest, topN)

\* the response is a CSV text with at least one row
FetchLoaded ==
    /\ pcFetch = "awaiting"
    /\ \E r \in ServerResponses :
          /\ ~r.html
          /\ Len(r.parsed) # 0
          /\ data' = r.parsed
          /\ parsedCount' = Len(r.parsed)
          /\ Rerender(r.parsed, selectedYear, selectedType, searchOrigin, searchDest, topN)
    /\ fileStatus' = "connected"
    /\ loading' = FALSE
    /\ pcFetch' = "done"
    /\ UNCHANGED <<error, pcUpload, parseVars, filterVars>>

\* the request fails, or returns HTML, or a text without rows: the catch
FetchFailed ==
    /\ pcFetch = "awaiting"
    /\ \E ok \in BOOLEAN, r \in ServerResponses :
          ~ok \/ r.html \/ Len(r.parsed) = 0
    /\ data' = <<>>
    /\ parsedCount' = 0
    /\ fileStatus' = "not_found"
    /\ loading' = FALSE
    /\ pcFetch' = "done"
    /\ UNCHANGED <<error, pcUpload, parseVars, filterVars>>
    /\ Rerender(<<>>, selectedYear, selectedType, searchOrigin, searchDest, topN)

\* variant: the upload control is offered whether or not data is loaded
UploadStart_AlwaysOffered ==
    /\ pcFetch # "mount"
    /\ ~loading
    /\ pcUpload = "idle"
    /\ pcUpload' = "reading"
    /\ loading' = TRUE
    /\ UNCHANGED <<data, error, parsedCount, fileStatus, pcFetch, parseVars,
                   filterVars>>
    /\ Rerender(data, selectedYear, selectedType, searchOrigin, searchDest, topN)

\* handleFileUpload up to its await.  The upload panel is rendered only
\* while data is empty and nothing is loading; the mount effect has run
\* before any input event is handled.
UploadStart ==
    /\ pcFetch # "mount"
    /\ Len(data) = 0 /\ ~loading
    /\ pcUpload = "idle"
    /\ pcUpload' = "reading"
    /\ loading' = TRUE
    /\ UNCHANGED <<data, error, parsedCount, fileStatus, pcFetch, parseVars,
                   filterVars>>
    /\ Rerender(data, selectedYear, selectedType, searchOrigin, searchDest, topN)

UploadLoaded ==
    /\ pcUpload = "reading"
    /\ \E f \in UploadedFiles :
          /\ Len(f.parsed) # 0
          /\ data' = f.parsed
          /\ parsedCount' = Len(f.parsed)
          /\ Rerender(f.parsed, selectedYear, selectedType, searchOrigin, searchDest, topN)
    /\ fileStatus' = "connected"
    /\ error' = "null"
    /\ loading' = FALSE
    /\ pcUpload' = "idle"
    /\ UNCHANGED <<pcFetch, parseVars, filterVars>>

\* reading the file fails or the file has no row: the catch
UploadFailed ==
    /\ pcUpload = "reading"
    /\ \E resolved \in BOOLEAN, f \in UploadedFiles :
          ~resolved \/ Len(f.parsed) = 0
    /\ fileStatus' = "not_found"
    /\ error' = "File parsing failed. Please check the CSV format."
    /\ loading' = FALSE
    /\ pcUpload' = "idle"
    /\ UNCHANGED <<data, parsedCount, pcFetch, parseVars, filterVars>>
    /\ Rerender(data, selectedYear, selectedType, searchOrigin, searchDest, topN)

\* the filter controls are rendered only while data is non-empty
SetSelectedYear ==
    /\ Len(data) > 0
    /\ \E y \in YearOptions :
          /\ selectedYear' = y
          /\ Rerender(data, y, selectedType, searchOrigin, searchDest, topN)
    /\ UNCHANGED <<selectedType, searchOrigin, searchDest, topN, loadVars, parseVars>>

SetSelectedType ==
    /\ Len(data) > 0
    /\ \E p \in PurposeOptions :
          /\ selectedType' = p
          /\ Rerender(data, selectedYear, p, searchOrigin, searchDest, topN)
    /\ UNCHANGED <<selectedYear, searchOrigin, searchDest, topN, loadVars, parseVars>>

SetSearchOrigin ==
    /\ Len(data) > 0
    /\ \E q \in OriginQueries :
          /\ searchOrigin' = q
          /\ Rerender(data, selectedYear, selectedType, q, searchDest, topN)
    /\ UNCHANGED <<selectedYear, selectedType, searchDest, topN, loadVars, parseVars>>

SetSearchDest ==
    /\ Len(data) > 0
    /\ \E q \in DestQueries :
          /\ searchDest' = q
          /\ Rerender(data, selectedYear, selectedType, searchOrigin, q, topN)
    /\ UNCHANGED <<selectedYear, selectedType, searchOrigin, topN, loadVars, parseVars>>

SetTopN ==
    /\ Len(data) > 0
    /\ \E n \in TopNOptions :
          /\ topN' = n
          /\ Rerender(data, selectedYear, selectedType, searchOrigin, searchDest, n)
    /\ UNCHANGED <<selectedYear, selectedType, searchOrigin, searchDest, loadVars, parseVars>>

Next ==
    \/ FetchStart
    \/ FetchLoaded
    \/ FetchFailed
    \/ UploadStart
    \/ UploadLoaded
    \/ UploadFailed
    \/ SetSelectedYear
    \/ SetSelectedType
    \/ SetSearchOrigin
    \/ SetSearchDest
    \/ SetTopN

Spec == Init /\ [][Next]_vars


\* ------------------------------------------------------------------------
\* Properties of parseCSV (SpecParse)
\* ------------------------------------------------------------------------
Min(a, b) == IF a < b THEN a ELSE b
Max(a, b) == IF a > b THEN a ELSE b

ParseDone == pcParse = "done"

\* the header names and the data lines of the text under study
hdrs        == Headers(Lines(csvText)[1])
DataLine(i) == Lines(csvText)[i + 1]

\* the commas of a line that follow an even number of double quotes
QuotesBefore(line, k) == Cardinality({q \in 1..(k - 1) : line[q] = "\""})
Separators(line) ==
    {k \in 1..Len(line) : line[k] = "," /\ QuotesBefore(line, k) % 2 = 0}
FieldCount(line) == Cardinality(Separators(line)) + 1

\* the j-th separator of a line; 0 before the first field, Len + 1 after the last
NthSeparator(line, j) ==
    IF j = 0 THEN 0
    ELSE IF j > Cardinality(Separators(line)) THEN Len(line) + 1
    ELSE CHOOSE k \in Separators(line) :
            Cardinality({x \in Separators(line) : x < k}) = j - 1

\* the j-th field as written, and with its quote characters removed
RawField(line, j) ==
    SubSeq(line, NthSeparator(line, j - 1) + 1, NthSeparator(line, j) - 1)
NotQuote(c) == c # "\""
FieldText(line, j) == SelectSeq(RawField(line, j), NotQuote)

\* the columns of data line i that get stored, and those whose value is the
\* one the row keeps (a later column with the same header overwrites)
StoredColumns(i) == 1..Min(FieldCount(DataLine(i)), Len(hdrs))
KeptColumns(i) ==
    {j \in StoredColumns(i) : \A j2 \in StoredColumns(i) : j2 > j => hdrs[j2] # hdrs[j]}
CellIs(i, j, v) == hdrs[j] \in DOMAIN rows[i] /\ rows[i][hdrs[j]] = v

H_name  == <<"n", "a", "m", "e">>
H_value == <<"v", "a", "l", "u", "e">>

\* C1: a comma separates fields only after an even number of double quotes on
\* its line; the quote characters are not part of the field.  Every stored
\* cell is the coerced text between two such commas, and for header
\* name,value the line "A, B",5 gives the single row {name: "A, B", value: 5}.
C1_QuoteAwareSeparator ==
    ParseDone =>
        /\ \A i \in 1..Len(rows) : \A j \in KeptColumns(i) :
              CellIs(i, j, Coerce(FieldText(DataLine(i), j)))
        /\ csvText = Text_QuotedComma =>
              rows = << (H_name :> Str(<<"A", ",", " ", "B">>)) @@ (H_value :> Num(5, 0)) >>

C1_Witness ==
    /\ ParseDone
    /\ csvText = Text_QuotedComma
    /\ Len(rows) = 1
    /\ rows[1][H_name] = Str(<<"A", ",", " ", "B">>)

\* C2 (as stated): the quoted field "007" is returned as the string 007.
C2_Quoted007IsString ==
    (ParseDone /\ csvText = Text_Quoted007) =>
        rows = << (<<"i", "d">> :> Str(<<"0", "0", "7">>)) >>

QuotedDigits(raw) ==
    /\ Len(raw) >= 3
    /\ raw[1] = "\"" /\ raw[Len(raw)] = "\""
    /\ AllDigits(SubSeq(raw, 2, Len(raw) - 1))

\* C2 (amended): a field written as a run of digits between double quotes is
\* returned as the number those digits denote, leading zeros lost: "007"
\* gives the number 7.
C2_QuotedDigitsAreNumber ==
    ParseDone =>
        /\ \A i \in 1..Len(rows) : \A j \in KeptColumns(i) :
              QuotedDigits(RawField(DataLine(i), j)) =>
                 CellIs(i, j, Num(DigitsVal(FieldText(DataLine(i), j)), 0))
        /\ csvText = Text_Quoted007 => rows = << (<<"i", "d">> :> Num(7, 0)) >>

C2_Witness ==
    /\ ParseDone
    /\ csvText = Text_Quoted007
    /\ rows[1][<<"i", "d">>] = Num(7, 0)

\* C3: a field whose text parses as a number is stored as that number, also
\* when it was written inside double quotes and also in the last column:
\* "42","42" under header a,b gives {a: 42, b: 42}.
C3_NumericTextIsNumber ==
    ParseDone =>
        /\ \A i \in 1..Len(rows) : \A j \in KeptColumns(i) :
              LET f == Trim(FieldText(DataLine(i), j))
              IN  (f # <<>> /\ ~IsNaN(StrToNumber(f))) =>
                     CellIs(i, j, StrToNumber(f)) /\ IsNumber(rows[i][hdrs[j]])
        /\ csvText = Text_Quoted42 =>
              rows = << (<<"a">> :> Num(42, 0)) @@ (<<"b">> :> Num(42, 0)) >>

C3_Witness ==
    /\ ParseDone
    /\ csvText = Text_Quoted42
    /\ QuotedDigits(RawField(DataLine(1), 2))
    /\ rows[1][<<"b">>] = Num(42, 0)

\* C4: an empty or white-space-only field is stored as the empty string,
\* never as the number 0; a line made of commas only gives a row whose cells
\* are all empty strings.
C4_EmptyFieldIsEmptyString ==
    ParseDone =>
        \A i \in 1..Len(rows) :
           /\ \A j \in KeptColumns(i) :
                 Trim(FieldText(DataLine(i), j)) = <<>> => CellIs(i, j, Str(<<>>))
           /\ (\A k \in 1..Len(DataLine(i)) : DataLine(i)[k] = ",") =>
                 \A h \in DOMAIN rows[i] : rows[i][h] = Str(<<>>)

C4_Witness ==
    /\ ParseDone
    /\ csvText = Text_OnlyCommas
    /\ rows = << [h \in {<<"a">>, <<"b">>, <<"c">>} |-> Str(<<>>)] >>

\* C5: the row of a data line has an entry exactly for the headers of the
\* columns 0..min(fieldCount, headerCount)-1: surplus fields are dropped and
\* the headers past the last field have no entry.
C5_RowKeys ==
    ParseDone =>
        \A i \in 1..Len(rows) :
           DOMAIN rows[i] = {hdrs[j] : j \in StoredColumns(i)}

C5_Witness ==
    /\ ParseDone
    /\ Len(rows) = 2
    /\ hdrs = << <<"n">>, <<"v">> >>
    /\ FieldCount(DataLine(1)) = 1 /\ DOMAIN rows[1] = { <<"n">> }
    /\ FieldCount(DataLine(2)) = 3 /\ DOMAIN rows[2] = { <<"n">>, <<"v">> }

\* the stretches of text between line feeds that hold a character other
\* than white space, named by the position before their first character
SegmentStarts(text) == {0} \cup {k \in 1..Len(text) : text[k] = "\n"}
SegmentEnd(text, b) ==
    LET nls == {k \in (b + 1)..Len(text) : text[k] = "\n"}
    IN  IF nls = {} THEN Len(text) ELSE (CHOOSE k \in nls : \A x \in nls : k <= x) - 1
SegmentIsBlank(text, b) ==
    \A k \in (b + 1)..SegmentEnd(text, b) : text[k] \in WhiteSpace
NonBlankSegments(text) ==
    Cardinality({b \in SegmentStarts(text) : ~SegmentIsBlank(text, b)})

\* C6: a text without a non-blank line parses to the empty sequence, and a
\* blank or white-space-only line never gives a row: there is one row per
\* non-blank line after the header.
C6_BlankLinesGiveNoRow ==
    ParseDone =>
        /\ NonBlankSegments(csvText) = 0 => rows = <<>>
        /\ Len(rows) = Max(0, NonBlankSegments(csvText) - 1)

C6_Witness ==
    /\ ParseDone
    /\ Len(rows) = 1
    /\ \E b \in SegmentStarts(csvText) :
          /\ SegmentIsBlank(csvText, b)
          /\ SegmentEnd(csvText, b) > b
          /\ SegmentEnd(csvText, b) < Len(csvText)

\* ------------------------------------------------------------------------
\* Properties of the selector (Spec)
\* ------------------------------------------------------------------------
\* C7: the records of filteredData are in descending order of displayValue,
\* whatever the filters and the rows.
C7_RankedDescending ==
    LET fd == filteredData
    IN  \A k \in 1..(Len(fd) - 1) :
           NumGE(fd[k].displayValue, fd[k + 1].displayValue)

C7_Witness ==
    /\ Len(filteredData) >= 2
    /\ filteredData[1].displayValue # filteredData[2].displayValue
    /\ filteredIdx[1] > filteredIdx[2]

\* the magnitude column the purpose names
PurposeColumn ==
    CASE selectedType = "leisure"  -> K_total_wt_l_all
      [] selectedType = "business" -> K_total_wt_b_all
      [] selectedType = "total"    -> K_total_wt_t_all

\* the cell is missing, is text, or is a number that is not above zero
NoPositiveMagnitude(row) ==
    \/ PurposeColumn \notin DOMAIN row
    \/ IsString(row[PurposeColumn])
    \/ ~NumGT(row[PurposeColumn], Zero)

\* C8: the displayValue of every record of filteredData is the number in the
\* column the active purpose names and is above zero; a row whose cell in
\* that column is missing, not a number, zero or negative is not in the output.
C8_DisplayValueIsChosenMagnitude ==
    LET fd == filteredData
        fi == filteredIdx
    IN  /\ \A k \in 1..Len(fd) :
              LET row == data[fi[k]]
              IN  /\ PurposeColumn \in DOMAIN row
                  /\ fd[k].displayValue = row[PurposeColumn]
                  /\ NumGT(fd[k].displayValue, Zero)
        /\ \A i \in 1..Len(data) :
              NoPositiveMagnitude(data[i]) => \A k \in 1..Len(fi) : fi[k] # i

C8_Witness ==
    /\ selectedType = "leisure"
    /\ Len(data) = 2 /\ Len(filteredData) = 1
    /\ NoPositiveMagnitude(data[1])
    /\ filteredData[1].displayValue = data[2][K_total_wt_l_all]
    /\ data[2][K_total_wt_l_all] # data[2][K_total_wt_t_all]

\* the name cell holds text that contains the query, ignoring case
NameContains(row, key, query) ==
    /\ key \in DOMAIN row
    /\ Includes(ToLowerCase(CellToString(row[key])), ToLowerCase(query))

\* C9: with a non-empty origin (destination) query, the origin (destination)
\* name of every record of filteredData contains the query, ignoring case;
\* an empty query excludes no record.
C9_QueryContainedInName ==
    /\ searchOrigin # <<>> =>
          \A k \in 1..Len(filteredData) :
             NameContains(filteredData[k].row, K_origin_name, searchOrigin)
    /\ searchDest # <<>> =>
          \A k \in 1..Len(filteredData) :
             NameContains(filteredData[k].row, K_destination_name, searchDest)
    /\ searchOrigin = <<>> =>
          \A q \in OriginQueries :
             Range(FilteredIndices(data, selectedYear, selectedType, q, searchDest))
                \subseteq Range(filteredIdx)
    /\ searchDest = <<>> =>
          \A q \in DestQueries :
             Range(FilteredIndices(data, selectedYear, selectedType, searchOrigin, q))
                \subseteq Range(filteredIdx)

\* C10: two records of filteredData with the same displayValue are in the
\* order of their rows in data.
C10_StableRanking ==
    LET fd == filteredData
        fi == filteredIdx
    IN  \A k1, k2 \in 1..Len(fd) :
           (k1 < k2 /\ fd[k1].displayValue = fd[k2].displayValue) => fi[k1] < fi[k2]

C10_Witness ==
    /\ Len(filteredData) >= 2
    /\ filteredData[1].displayValue = filteredData[2].displayValue
    /\ data[filteredIdx[1]] # data[filteredIdx[2]]

\* ------------------------------------------------------------------------
\* Properties of the coordinate repair (Spec)
\* ------------------------------------------------------------------------
CoordKeys == {K_lat_o, K_lon_o, K_lat_d, K_lon_d}

\* a cell that is present and is not a finite number and not empty: text
\* that is not numeric (the parser keeps it as a non-empty string) or a
\* number that is not finite
Garbled(row, key) ==
    /\ Has(row, key)
    /\ \/ row[key].t \in {"pinf", "ninf", "nan"}
       \/ row[key].t = "str" /\ row[key].s # <<>>

\* a cell that is absent or the empty string
EmptyCell(row, key) == ~Has(row, key) \/ row[key] = Str(<<>>)

FinitePair(p) == Len(p) = 2 /\ p[1].t = "num" /\ p[2].t = "num"

\* the record of rank k is one of those of mapData
Drawn(mi, fi, k) == \E j \in 1..Len(mi) : mi[j] = fi[k]

C12_EmptyLongitudeNotDrawn ==
    LET fd == filteredData
        fi == filteredIdx
        mi == mapIdx
    IN  \A k \in 1..Len(fd) :
            (\/ EmptyCell(fd[k].row, K_lon_o)
             \/ EmptyCell(fd[k].row, K_lon_d)) => ~Drawn(mi, fi, k)

\* the absolute value of a finite number
Abs(v) == IF v.m < 0 THEN Num(0 - v.m, v.e) ELSE v

\* the longitude and latitude cells of a drawn record that hold a finite
\* number
NumberCell(row, key) == Has(row, key) /\ row[key].t = "num"

\* C13: in mapData a positive longitude x is emitted as -x and a zero or
\* negative one unchanged, a latitude is emitted as it is, every emitted
\* longitude is <= 0 with the magnitude of its cell, and repairing a
\* longitude twice gives what repairing it once gives.
C13_LongitudeSignRepair ==
    /\ LET md == mapData IN \A j \in 1..Len(md) :
          LET row == md[j].row
              o   == md[j].oCoords
              d   == md[j].dCoords
              lonOk(key, out) ==
                  /\ NumGE(Zero, out)
                  /\ NumberCell(row, key) =>
                        /\ Abs(out) = Abs(row[key])
                        /\ out = IF row[key].m > 0 THEN Num(0 - row[key].m, row[key].e)
                                 ELSE row[key]
              latOk(key, out) == NumberCell(row, key) => out = row[key]
          IN  /\ lonOk(K_lon_o, o[2]) /\ lonOk(K_lon_d, d[2])
              /\ latOk(K_lat_o, o[1]) /\ latOk(K_lat_d, d[1])
    /\ \A i \in 1..Len(data) : \A key \in {K_lon_o, K_lon_d} :
          fixLon(fixLon(toNum(data[i], key))) = fixLon(toNum(data[i], key))

C13_Witness ==
    /\ \E j \in 1..Len(mapData) :
          /\ NumberCell(mapData[j].row, K_lon_o)
          /\ mapData[j].row[K_lon_o].m > 0
          /\ mapData[j].oCoords[2].m < 0
    /\ \E j \in 1..Len(mapData) :
          /\ NumberCell(mapData[j].row, K_lon_d)
          /\ mapData[j].row[K_lon_d].m < 0
          /\ mapData[j].dCoords[2] = mapData[j].row[K_lon_d]

InLatitudeRange(v) == NumGE(v, Num(-90, 0)) /\ NumGE(Num(90, 0), v)

\* C14: the latitude of every origin pair and of every destination pair of
\* mapData lies within [-90, 90].
C14_LatitudeInRange ==
    LET md == mapData
    IN  \A j \in 1..Len(md) :
            /\ InLatitudeRange(md[j].oCoords[1])
            /\ InLatitudeRange(md[j].dCoords[1])

\* ------------------------------------------------------------------------
\* Properties of the stroke weights (Spec)
\* ------------------------------------------------------------------------
\* the weights of the lines of the present render
weights == Weights(mapData, logRange)

IsLargest(flows, j)  == \A i \in 1..Len(flows) :
                           NumGE(flows[j].displayValue, flows[i].displayValue)
IsSmallest(flows, j) == \A i \in 1..Len(flows) :
                           NumGE(flows[i].displayValue, flows[j].displayValue)

\* the distance between the logarithms of the largest and of the smallest
\* displayValue of a non-empty subset
LogSpread(flows) ==
    LET logs == {Log1p(flows[j].displayValue) : j \in 1..Len(flows)}
    IN  SetMax(logs) - SetMin(logs)

\* C15 as stated: in any rendered subset the record with the largest
\* displayValue has weight 14.0 and the one with the smallest has weight 0.8.
C15_LargestGetsMaxW ==
    LET flows == mapData
        w     == weights
    IN  \A j \in 1..Len(flows) :
            /\ IsLargest(flows, j) => w[j] = MaxW
            /\ IsSmallest(flows, j) => w[j] = MinW

\* C15: a record whose displayValue is finite has a weight from 0.8 to
\* 14.0 and one whose displayValue is Infinity has the weight NaN; the
\* finite record with the smallest displayValue has weight 0.8; the record
\* with the largest displayValue, when finite, has weight 14.0 if the
\* logarithms of the largest and the smallest are at least 1e-6 apart (as
\* for 10, 100, 1000) and a weight below 14.0 otherwise, 0.8 when all
\* displayValues are equal.
C15_ExtremeWeights ==
    LET flows  == mapData
        w      == weights
        spread == LogSpread(flows)
        fin(j) == flows[j].displayValue # PosInf
    IN  \A j \in 1..Len(flows) :
            /\ ~fin(j) => w[j] = NotANumber
            /\ fin(j) => w[j] \in MinW..MaxW
            /\ fin(j) /\ IsSmallest(flows, j) => w[j] = MinW
            /\ fin(j) /\ IsLargest(flows, j) /\ spread >= LogEpsilon => w[j] = MaxW
            /\ fin(j) /\ IsLargest(flows, j) /\ spread < LogEpsilon => w[j] < MaxW
            /\ fin(j) /\ IsLargest(flows, j) /\ spread = 0 => w[j] = MinW

C15_Witness ==
    /\ Len(mapData) = 3
    /\ mapData[1].displayValue = Num(1000, 0) /\ weights[1] = MaxW
    /\ mapData[2].displayValue = Num(100, 0)
    /\ weights[2] > MinW /\ weights[2] < MaxW
    /\ mapData[3].displayValue = Num(10, 0) /\ weights[3] = MinW

\* the smallest and the largest logarithm over a set of records
LogsOf(flows) == {Log1p(flows[j].displayValue) : j \in 1..Len(flows)}

\* C16: in every reachable state, whatever filter changes, top-N changes and
\* loads led to it, the minLog and maxLog the weights are computed with are
\* those of the present mapData: minLog is the smallest ln(1+displayValue)
\* of its records and maxLog the largest (minLog + 1e-6 when that is
\* larger); they are 0 and 1 when mapData is empty.
C16_LogRangeOfCurrentSubset ==
    LET flows == mapData
        logs  == LogsOf(flows)
    IN  IF Len(flows) = 0
        THEN logRange = [minLog |-> 0, maxLog |-> LogOne]
        ELSE /\ logs # {}
             /\ logRange.minLog \in logs
             /\ \A x \in logs : logRange.minLog <= x /\ x <= logRange.maxLog
             /\ \/ logRange.maxLog \in logs
                \/ logRange.maxLog = logRange.minLog + LogEpsilon

\* a year was chosen after the load, the subset is cut by topN, and the
\* ranked sequence holds a smaller magnitude than any of the subset
C16_Witness ==
    /\ selectedYear = "2020"
    /\ topN = 50
    /\ fileStatus = "connected"
    /\ Len(filteredData) > topN
    /\ Len(mapData) > 0
    /\ logRange.minLog = Log1p(Num(3, 0))
    /\ \E k \in 1..Len(filteredData) : filteredData[k].displayValue = Num(1, 0)

\* ------------------------------------------------------------------------
\* Properties of the whole pipeline (Spec)
\* ------------------------------------------------------------------------
\* C17: run on the heap that holds data, the chains filteredData and
\* mapData leave the array data and every row object as they were and put
\* their records into new objects; a second run on the heap the first run
\* left changes nothing the first run made and yields the same ranked
\* sequence and the same rendered subset, which are those of the render.
C17_DeterministicAndPure ==
    LET h0      == HeapOf(data)
        dataRef == Len(data) + 1
        f1      == HeapFilteredData(h0, dataRef, selectedYear, selectedType,
                                    searchOrigin, searchDest)
        m1      == HeapMapData(f1.heap, f1.ref, topN)
        h1      == m1.heap
        f2      == HeapFilteredData(h1, dataRef, selectedYear, selectedType,
                                    searchOrigin, searchDest)
        m2      == HeapMapData(f2.heap, f2.ref, topN)
        h2      == m2.heap
    IN  /\ \A a \in 1..Len(h0) : h1[a] = h0[a]
        /\ \A k \in 1..Len(h1[f1.ref].items) : h1[f1.ref].items[k] > Len(h0)
        /\ \A k \in 1..Len(h1[m1.ref].items) : h1[m1.ref].items[k] > Len(f1.heap)
        /\ \A a \in 1..Len(h1) : h2[a] = h1[a]
        /\ Elements(h2, f2.ref) = Elements(h1, f1.ref)
        /\ Elements(h2, m2.ref) = Elements(h1, m1.ref)
        /\ Elements(h1, f1.ref) = filteredData
        /\ Elements(h1, m1.ref) = mapData

\* the sort moved a record in front of one that precedes it in data, and a
\* ranked record is not drawn
C17_Witness ==
    /\ Len(filteredData) >= 2
    /\ \E k \in 1..(Len(filteredData) - 1) : filteredIdx[k] > filteredIdx[k + 1]
    /\ Len(mapData) >= 1
    /\ Len(mapData) < Len(filteredData)

\* the rank in filteredData of the record derived from row src of data
RankOf(fi, src) == CHOOSE k \in 1..Len(fi) : fi[k] = src

\* all four coordinate cells of a ranked record give a finite number
CoordsUsable(rec) ==
    \A key \in CoordKeys : IsFinite(toNum(rec.row, key))

\* the sum of the displayValues of fd, each distinct value of V taken as
\* many times as fd holds it
RECURSIVE SumByValue(_, _)
SumByValue(fd, V) ==
    IF V = {} THEN Zero
    ELSE LET v == CHOOSE x \in V : TRUE
             n == Cardinality({k \in 1..Len(fd) : fd[k].displayValue = v})
         IN  NumAdd(IF v = PosInf THEN PosInf ELSE Normalize(v.m * n, v.e),
                    SumByValue(fd, V \ {v}))

\* C18: mapData is made, in rank order, of records among the first topN of
\* filteredData, so it has at most topN records; among those first topN it
\* holds exactly the records with usable coordinates, and never a record
\* ranked after topN; a record without usable coordinates keeps its rank in
\* filteredData, its row in the table and in the chart, and its share of the
\* total.
C18_SubsetOfTopN ==
    LET fi == filteredIdx
        mi == mapIdx
        fd == filteredData
        md == mapData
    IN  /\ Len(md) <= topN
        /\ \A j \in 1..Len(mi) :
              /\ \E k \in 1..Len(fi) : fi[k] = mi[j]
              /\ RankOf(fi, mi[j]) <= topN
              /\ j > 1 => RankOf(fi, mi[j - 1]) < RankOf(fi, mi[j])
              /\ md[j].row = fd[RankOf(fi, mi[j])].row
              /\ md[j].displayValue = fd[RankOf(fi, mi[j])].displayValue
        /\ \A k \in 1..Len(fd) :
              /\ (k <= topN /\ CoordsUsable(fd[k])) => \E j \in 1..Len(mi) : mi[j] = fi[k]
              /\ ~CoordsUsable(fd[k]) => \A j \in 1..Len(mi) : mi[j] # fi[k]
              /\ k <= 100 => TableRows(fd)[k] = fd[k]
              /\ k <= 15 => ChartRows(fd)[k] = fd[k]
        /\ TotalStats(fd) = SumByValue(fd, {fd[k].displayValue : k \in 1..Len(fd)})

\* more than topN ranked records, one of the first topN without usable
\* coordinates, and the record ranked right after topN, usable, not drawn
C18_Witness ==
    LET fd == filteredData
    IN  /\ Len(fd) > topN
        /\ Len(mapData) = topN - 1
        /\ ~CoordsUsable(fd[2])
        /\ CoordsUsable(fd[topN + 1])
        /\ \A j \in 1..Len(mapIdx) : mapIdx[j] # filteredIdx[topN + 1]

\* the rows of the documented example file
Rows_Boston == parseCSV(Text_Boston)

BostonLoaded ==
    /\ selectedType = "total" /\ selectedYear = "All"
    /\ searchOrigin = <<>> /\ searchDest = <<>>
    /\ Len(data) = 1
    /\ data = Rows_Boston

\* C19: once the file made of the ten-column header and of the line
\* 2021,"Boston, MA","Austin, TX",42.36,71.06,30.27,97.74,100,50,150 is
\* loaded, with purpose total, year All and no name query, filteredData and
\* mapData hold one record: displayValue 150, origin_name "Boston, MA",
\* oCoords [42.36, -71.06] and dCoords [30.27, -97.74].
C19_BostonAustin ==
    BostonLoaded =>
        /\ Len(data) = 1
        /\ Len(filteredData) = 1 /\ Len(mapData) = 1
        /\ filteredData[1].displayValue = Num(150, 0)
        /\ filteredData[1].displayType = "total"
        /\ mapData[1].displayValue = Num(150, 0)
        /\ mapData[1].row[K_origin_name] =
              Str(<<"B", "o", "s", "t", "o", "n", ",", " ", "M", "A">>)
        /\ mapData[1].row[K_destination_name] =
              Str(<<"A", "u", "s", "t", "i", "n", ",", " ", "T", "X">>)
        /\ mapData[1].row[K_year] = Num(2021, 0)
        /\ mapData[1].oCoords = <<Num(4236, 2), Num(-7106, 2)>>
        /\ mapData[1].dCoords = <<Num(3027, 2), Num(-9774, 2)>>

C19_Witness ==
    /\ BostonLoaded
    /\ fileStatus = "connected" /\ ~loading
    /\ Len(mapData) = 1

AllEqual(flows) ==
    \A i, j \in 1..Len(flows) : flows[i].displayValue = flows[j].displayValue

\* C20: the denominator maxLog - minLog of strokeFor is strictly positive in
\* every render; for an empty mapData it is 1 - 0 and no weight is computed;
\* for a mapData whose displayValues are all equal, a single record
\* included, maxLog is minLog + 1e-6 and every weight is 0.8; no weight is
\* NaN: each one is a number between 0.8 and 14.0.
C20_PositiveDenominator ==
    LET flows == mapData
        w     == weights
        den   == ExtSub(logRange.maxLog, logRange.minLog)
    IN  /\ den # LogNaN /\ den > 0
        /\ Len(flows) = 0 =>
              /\ logRange = [minLog |-> 0, maxLog |-> LogOne]
              /\ w = <<>>
        /\ (Len(flows) > 0 /\ AllEqual(flows)) =>
              /\ logRange.minLog = Log1p(flows[1].displayValue)
              /\ logRange.maxLog = logRange.minLog + LogEpsilon
              /\ \A j \in 1..Len(flows) : w[j] = MinW
        /\ \A j \in 1..Len(flows) : w[j] # NotANumber /\ w[j] \in MinW..MaxW

\* ------------------------------------------------------------------------
\* Order of the stroke weights (Spec)
\* ------------------------------------------------------------------------
\* x >= y for two weights; a comparison with NaN is false
WeightGE(x, y) == x # NotANumber /\ y # NotANumber /\ x >= y

\* C23: within one rendered subset the weights preserve the order of the
\* displayValues: displayValue(a) >= displayValue(b) implies
\* weight(a) >= weight(b); and every weight lies between 0.8 and 14.0.
C23_WeightOrderPreserving ==
    LET flows == mapData
        w     == weights
    IN  /\ \A a, b \in 1..Len(flows) :
              NumGE(flows[a].displayValue, flows[b].displayValue) =>
                  WeightGE(w[a], w[b])
        /\ \A j \in 1..Len(flows) : w[j] # NotANumber /\ w[j] \in MinW..MaxW

\* ------------------------------------------------------------------------
\* Finite number cells (SpecParse)
\* ------------------------------------------------------------------------
\* C21: every number-typed cell of every row returned by parseCSV is finite;
\* the texts Infinity and -Infinity are not stored as non-finite numbers.
C21_NumberCellsFinite ==
    ParseDone =>
        \A i \in 1..Len(rows) : \A h \in DOMAIN rows[i] :
            IsNumber(rows[i][h]) => IsFinite(rows[i][h])

\* ------------------------------------------------------------------------
\* Properties of the loading state (Spec)
\* ------------------------------------------------------------------------
UploadError == "File parsing failed. Please check the CSV format."

\* C22: whenever no load is in progress, fileStatus is connected exactly when
\* data is non-empty and parsedCount is the number of rows of data; in
\* particular a failed or empty upload never leaves not_found next to loaded
\* rows.
C22_StatusMatchesData ==
    ~loading =>
        /\ fileStatus = "connected" <=> Len(data) > 0
        /\ parsedCount = Len(data)

\* a failed or empty upload has ended after the auto-load found nothing
C22_Witness ==
    /\ ~loading
    /\ pcFetch = "done"
    /\ error = UploadError
    /\ fileStatus = "not_found"
    /\ Len(data) = 0
    /\ parsedCount = 0

====
